---- MODULE Spec2Model ----
(***************************************************************************)
(* A model of pyss3's live-test server (src/pyss3/server.py): the static  *)
(* resource resolver, the HTTP message codec, the test-corpus index and    *)
(* the select()-driven dispatcher of Server.serve.                         *)
(*                                                                         *)
(* Text is modelled as a sequence of one-character strings.  The unit "N"  *)
(* stands for one line terminator "\r\n", so the blank-line boundary       *)
(* "\r\n\r\n" of an HTTP message is the two units <<"N", "N">>.            *)
(***************************************************************************)
EXTENDS Integers, Sequences, FiniteSets, TLC

VARIABLES
    clf,           \* Server.__clf__: the attached model, 0 for None
    docs,          \* Server.__docs__: the Test Corpus Index
    x_test,        \* Server.__x_test__: the in-memory document array
    port,          \* Server.__port__
    server_socket, \* Server.__server_socket__: "None" or "listening"
    ret,           \* how the last call of the public interface ended
    docs_clf,      \* history: the model that built the entries of docs
    call,          \* history: the last call of the public interface
    pc,            \* where serve() is: "idle" when it is not running
    clients,       \* serve's list of watched sockets (0 is the listener)
    read_socks,    \* the ready sockets the for loop still has to visit
    cur,           \* the socket __handle_request__ is blocked on, 0 if none
    method,        \* __handle_request__: the operation name of the POST
    cont_length,   \* __handle_request__: the declared Content-Length
    body,          \* __recvall_body__: the body accumulated so far
    conn,          \* the connections: socket state, bytes in flight, ...
    backlog,       \* connections the listener has queued for accept()
    g_path,        \* resolver run: the GET path handed to the handler
    g_out,         \* resolver run: what the GET branch did with it
    r_body         \* reassembly run: the body the client delivers

serverVars == <<clf, docs, x_test, port, server_socket, ret, docs_clf, call>>

loopVars == <<pc, clients, read_socks, cur, method, cont_length, body>>

netVars == <<conn, backlog>>

getVars == <<g_path, g_out, r_body>>

vars == <<serverVars, loopVars, netVars, getVars>>

None == "None"

(***************************************************************************)
(* Bounds of the model.                                                    *)
(***************************************************************************)
MaxPathLen == 4

MaxConns == 2

MaxDocs == 2

MaxBodyLen == 3

(***************************************************************************)
(* Generic text helpers (Python str / list semantics).                     *)
(***************************************************************************)
\* s[i:] for a 0-based i (Python slicing never raises).
Drop(s, i) == IF i >= Len(s) THEN <<>> ELSE SubSeq(s, i + 1, Len(s))

\* s[:i]
Take(s, i) == IF i >= Len(s) THEN s ELSE SubSeq(s, 1, i)

\* s.startswith(p)
StartsWith(s, p) == Len(p) <= Len(s) /\ SubSeq(s, 1, Len(p)) = p

\* 1-based index of the last occurrence of ch in s, 0 when there is none
\* (Python's s.rfind(ch) + 1).
RFind(s, ch) ==
    IF \E i \in 1..Len(s) : s[i] = ch
    THEN CHOOSE i \in 1..Len(s) : s[i] = ch /\ \A j \in (i+1)..Len(s) : s[j] # ch
    ELSE 0

\* s.rstrip(ch)
RECURSIVE RStrip(_, _)
RStrip(s, ch) ==
    IF s # <<>> /\ s[Len(s)] = ch THEN RStrip(SubSeq(s, 1, Len(s) - 1), ch) ELSE s

\* s.replace(ch, '')
RemoveChar(s, ch) == SelectSeq(s, LAMBDA c : c # ch)

\* s.replace(old, new): left to right, non-overlapping (old is not empty).
RECURSIVE Replace(_, _, _)
Replace(s, old, new) ==
    IF Len(s) < Len(old) THEN s
    ELSE IF StartsWith(s, old)
         THEN new \o Replace(Drop(s, Len(old)), old, new)
         ELSE <<s[1]>> \o Replace(Tail(s), old, new)

\* s.split(sep): the list of pieces between the non-overlapping occurrences
\* of sep, scanning left to right (sep is not empty).
RECURSIVE SplitAcc(_, _, _)
SplitAcc(s, sep, acc) ==
    IF Len(s) < Len(sep) THEN <<acc \o s>>
    ELSE IF StartsWith(s, sep)
         THEN <<acc>> \o SplitAcc(Drop(s, Len(sep)), sep, <<>>)
         ELSE SplitAcc(Tail(s), sep, acc \o <<s[1]>>)

Split(s, sep) == SplitAcc(s, sep, <<>>)

\* sub in s
Contains(s, sub) == \E i \in 0..(Len(s) - Len(sub)) : StartsWith(Drop(s, i), sub)

\* All sequences over S of length 0..n.
SeqsUpTo(S, n) == UNION {[1..k -> S] : k \in 0..n}

(***************************************************************************)
(* os.path (posixpath) as the resolver uses it.                            *)
(***************************************************************************)
\* path.split(p): (head, tail) around the last slash; trailing slashes are
\* stripped from head unless it consists of slashes only.
path_split(p) ==
    LET i    == RFind(p, "/")
        head == Take(p, i)
        tail == Drop(p, i)
    IN  <<IF head # <<>> /\ (\E k \in 1..Len(head) : head[k] # "/")
          THEN RStrip(head, "/") ELSE head,
          tail>>

\* path.join(a, b)
path_join(a, b) ==
    IF StartsWith(b, <<"/">>) THEN b
    ELSE IF a = <<>> \/ a[Len(a)] = "/" THEN a \o b
    ELSE a \o <<"/">> \o b

\* path.splitext(file)[1] for a file name without slashes: the suffix from
\* the last dot, empty when only dots precede that dot.
path_splitext_ext(file) ==
    LET d == RFind(file, ".")
    IN  IF d > 0 /\ (\E k \in 1..(d - 1) : file[k] # ".")
        THEN Drop(file, d - 1) ELSE <<>>

(***************************************************************************)
(* Module constants of server.py.                                          *)
(***************************************************************************)
\* BASE_PATH: the bundled resource directory, here the directory /b.
BASE_PATH == <<"/", "b">>

INDEX_HTML == <<"i", "n", "d", "e", "x", ".", "h", "t", "m", "l">>

\* content_type(ext) over CONTET_TYPE
content_type(ext) ==
    CASE ext = <<"h", "t", "m", "l">> -> "text/html"
      [] ext = <<"c", "s", "s">>      -> "text/css"
      [] ext = <<"j", "s">>           -> "application/javascript"
      [] ext = <<"p", "n", "g">>      -> "image/png"
      [] ext = <<"j", "s", "o", "n">> -> "application/json"
      [] ext = <<"i", "c", "o">>      -> "image/vnd.microsoft.icon"
      [] OTHER                        -> "application/octet-stream"

(***************************************************************************)
(* Static resource resolver.                                               *)
(***************************************************************************)
\* The directory part as line 68 rewrites it.
sanitize_dir(dir) == Replace(RemoveChar(dir, "."), <<"/", "/">>, <<"/">>)

\* parse_and_sanitize(rsc_path) -> (local path, extension)
parse_and_sanitize(rsc_path) ==
    LET sp   == path_split(rsc_path)
        dir  == sp[1]
        file == IF sp[2] = <<>> THEN INDEX_HTML ELSE sp[2]
        ext  == Drop(path_splitext_ext(file), 1)
        rel  == Drop(path_join(sanitize_dir(dir), file), 1)
    IN  <<path_join(BASE_PATH, rel), ext>>

(***************************************************************************)
(* The file system the server runs on: the base directory /b with its      *)
(* index.html, an asset directory /b/a holding the file /b/a/a; outside    *)
(* the base directory a file /a, and a test-set directory /t that holds    *)
(* the category folder /t/A (documents f and g) and the category file      *)
(* /t/B (one document per line).  A node is the sequence of its path       *)
(* segments.                                                               *)
(***************************************************************************)
Dirs == { <<>>, <<<<"b">>>>, <<<<"b">>, <<"a">>>>,
          <<<<"t">>>>, <<<<"t">>, <<"A">>>> }

Files == { <<<<"b">>, INDEX_HTML>>, <<<<"b">>, <<"a">>, <<"a">>>>, <<<<"a">>>>,
           <<<<"t">>, <<"A">>, <<"f">>>>, <<<<"t">>, <<"A">>, <<"g">>>>,
           <<<<"t">>, <<"B">>>> }

\* The text of a file.
FileText(node) ==
    CASE node = <<<<"b">>, INDEX_HTML>>        -> <<"h", "i">>
      [] node = <<<<"b">>, <<"a">>, <<"a">>>>  -> <<"x">>
      [] node = <<<<"t">>, <<"A">>, <<"f">>>>  -> <<"p">>
      [] node = <<<<"t">>, <<"A">>, <<"g">>>>  -> <<"q", "q">>
      [] node = <<<<"t">>, <<"B">>>>           -> <<"p", "N", "q", "q", "N">>
      [] OTHER                                 -> <<"s", "e", "c">>

\* Byte length of a file's content.
FileLen(node) == Len(FileText(node))

\* The node a path leads to, following it segment by segment as the kernel
\* does ("" and "." stay, ".." goes to the parent, a name needs a directory
\* that holds it); Missing when some step fails.
\* No node: what a path that leads nowhere resolves to.
Missing == <<<<>>>>

RECURSIVE Walk(_, _)
Walk(node, segs) ==
    IF node = Missing THEN Missing
    ELSE IF segs = <<>> THEN node
    ELSE LET s == Head(segs) IN
         IF s = <<>> THEN Walk(node, Tail(segs))
         ELSE IF node \notin Dirs THEN Missing
         ELSE IF s = <<".">> THEN Walk(node, Tail(segs))
         ELSE IF s = <<".", ".">>
              THEN Walk(IF node = <<>> THEN node ELSE SubSeq(node, 1, Len(node) - 1),
                        Tail(segs))
         ELSE IF (node \o <<s>>) \in (Dirs \cup Files)
              THEN Walk(node \o <<s>>, Tail(segs))
         ELSE Missing

\* The node of a path; a relative path starts at the working directory /.
Lookup(p) == Walk(<<>>, Split(p, <<"/">>))

\* path.exists(p)
path_exists(p) == Lookup(p) # Missing

\* The lexical location of an absolute path: its segments with "", "." and
\* ".." resolved, whether or not anything exists there.
RECURSIVE Normal(_, _)
Normal(node, segs) ==
    IF segs = <<>> THEN node
    ELSE LET s == Head(segs) IN
         IF s = <<>> \/ s = <<".">> THEN Normal(node, Tail(segs))
         ELSE IF s = <<".", ".">>
              THEN Normal(IF node = <<>> THEN node ELSE SubSeq(node, 1, Len(node) - 1),
                          Tail(segs))
         ELSE Normal(node \o <<s>>, Tail(segs))

\* p names a location inside the base resource directory.
UnderBase(p) ==
    LET loc  == Normal(<<>>, Split(p, <<"/">>))
        base == Normal(<<>>, Split(BASE_PATH, <<"/">>))
    IN  StartsWith(p, <<"/">>) /\ StartsWith(loc, base)

(***************************************************************************)
(* Responses.  What a handler writes to its socket is a sequence of        *)
(* send() calls: a header carrying a status and a Content-length, or a     *)
(* body of some byte length.                                               *)
(***************************************************************************)
Header(status, ctype, clen) ==
    [kind |-> "header", status |-> status, ctype |-> ctype, clen |-> clen]

Body(n) == [kind |-> "body", status |-> 0, ctype |-> "", clen |-> n]

\* HTTP_404
HTTP_404 == Header(404, "", 0)

\* What a handler did: the send() calls it made, whether an exception left
\* it, and (for GET) the local path it resolved.
Outcome(sent, raised, local) == [sent |-> sent, raised |-> raised, local |-> local]

\* The GET branch of __handle_request__ (lines 146-161).
handle_get(rsc_path) ==
    LET ps         == parse_and_sanitize(rsc_path)
        local_path == ps[1]
        node       == Lookup(local_path)
    IN  IF path_exists(local_path)
        THEN IF node \in Files
             THEN Outcome(<<Header(200, content_type(ps[2]), FileLen(node)),
                            Body(FileLen(node))>>, FALSE, local_path)
             ELSE \* open() of a directory raises IsADirectoryError
                  Outcome(<<>>, TRUE, local_path)
        ELSE Outcome(<<HTTP_404>>, FALSE, local_path)

(***************************************************************************)
(* HTTP message codec.                                                     *)
(***************************************************************************)
\* The blank line that ends the header block, "\r\n\r\n".
BLANK_LINE == <<"N", "N">>

\* A result that may be an exception instead of a value.
Ok(v) == [ok |-> TRUE, val |-> v]

Raised == [ok |-> FALSE, val |-> <<>>]

DigitChars == <<"0", "1", "2", "3", "4", "5", "6", "7", "8", "9">>

IsDigit(c) == \E d \in 1..10 : DigitChars[d] = c

DigitVal(c) == (CHOOSE d \in 1..10 : DigitChars[d] = c) - 1

\* int(s) for a run of decimal digits.
RECURSIVE StrToInt(_)
StrToInt(s) ==
    IF s = <<>> THEN 0
    ELSE 10 * StrToInt(SubSeq(s, 1, Len(s) - 1)) + DigitVal(s[Len(s)])

\* "%d" % n for n >= 0.
RECURSIVE IntToStr(_)
IntToStr(n) ==
    IF n < 10 THEN <<DigitChars[n + 1]>>
    ELSE IntToStr(n \div 10) \o <<DigitChars[(n % 10) + 1]>>

\* int(s): a value, or ValueError when s is not a run of digits.
ParseInt(s) ==
    IF s # <<>> /\ \A k \in 1..Len(s) : IsDigit(s[k]) THEN Ok(StrToInt(s)) ELSE Raised

\* The longest prefix of s made of digits.
RECURSIVE DigitPrefix(_)
DigitPrefix(s) ==
    IF s # <<>> /\ IsDigit(s[1]) THEN <<s[1]>> \o DigitPrefix(Tail(s)) ELSE <<>>

\* s without its leading white space (\s matches blanks and line ends).
RECURSIVE SkipSpace(_)
SkipSpace(s) ==
    IF s # <<>> /\ s[1] \in {" ", "N"} THEN SkipSpace(Tail(s)) ELSE s

\* get_http_path(http_request): the second blank-separated token of the
\* first line; IndexError when the first line has a single token.
get_http_path(http_request) ==
    LET line   == Split(http_request, <<"N">>)[1]
        tokens == Split(line, <<" ">>)
    IN  IF Len(tokens) >= 2 THEN Ok(tokens[2]) ELSE Raised

\* get_http_body(http_request): the second piece of the request split at
\* blank lines; IndexError when the request holds no blank line.
get_http_body(http_request) ==
    LET pieces == Split(http_request, BLANK_LINE)
    IN  IF Len(pieces) >= 2 THEN Ok(pieces[2]) ELSE Raised

\* The header name "Content-length" is the unit "C".  A match of the
\* pattern Content-length\s*:\s*(\d+) at the start of s: its digits, or <<>>.
ContLengthAt(s) ==
    IF s = <<>> \/ s[1] # "C" THEN <<>>
    ELSE LET t == SkipSpace(Tail(s)) IN
         IF t = <<>> \/ t[1] # ":" THEN <<>>
         ELSE DigitPrefix(SkipSpace(Tail(t)))

\* get_http_contlength(http_request): the number of the first match
\* anywhere in the request, 0 when nothing matches.
get_http_contlength(http_request) ==
    LET hits == {k \in 0..Len(http_request) : ContLengthAt(Drop(http_request, k)) # <<>>}
    IN  IF hits = {} THEN 0
        ELSE StrToInt(ContLengthAt(Drop(http_request,
                 CHOOSE k \in hits : \A j \in hits : k <= j)))

HexChars == {"0", "1", "2", "3", "4", "5", "6", "7", "8", "9",
             "A", "B", "C", "D", "E", "F", "a", "b", "c", "d", "e", "f"}

\* The character a percent escape stands for ("?" for the ones the model
\* does not tell apart).
Unhex(h1, h2) ==
    CASE <<h1, h2>> = <<"2", "5">> -> "%"
      [] <<h1, h2>> = <<"2", "F">> -> "/"
      [] <<h1, h2>> = <<"3", "A">> -> ":"
      [] <<h1, h2>> = <<"4", "4">> -> "D"
      [] OTHER                     -> "?"

\* url_decode(s): urllib's unquote; a "%" not followed by two hex digits
\* stays as it is.
RECURSIVE url_decode(_)
url_decode(s) ==
    IF s = <<>> THEN <<>>
    ELSE IF s[1] = "%" /\ Len(s) >= 3 /\ s[2] \in HexChars /\ s[3] \in HexChars
         THEN <<Unhex(s[2], s[3])>> \o url_decode(Drop(s, 3))
         ELSE <<s[1]>> \o url_decode(Tail(s))

(***************************************************************************)
(* The classifier (an external collaborator).  A model is a number; 0 is   *)
(* no model (None).  What classify() does on a document is not decided by  *)
(* the server: every call either raises or returns a ranked list whose     *)
(* first pair is (category index, confidence).                             *)
(***************************************************************************)
NoClf == 0

Models == {1, 2}

\* clf.get_categories()
get_categories(m) == IF m = 1 THEN <<<<"A">>, <<"B">>>> ELSE <<<<"A">>>>

\* The possible outcomes of one classify() call of model m.
ClassifyOutcomes(m) ==
    [raises : {FALSE}, cat : 0..(Len(get_categories(m)) - 1), conf : {1}]
        \cup {[raises |-> FALSE, cat |-> 0, conf |-> 0],
              [raises |-> TRUE, cat |-> 0, conf |-> 0]}

(***************************************************************************)
(* Test Corpus Index: Server.__docs__ maps a category to its three lists,  *)
(* Server.__x_test__ is None or the list of documents.                     *)
(***************************************************************************)
NoDocs == <<>>

NoXTest == [set |-> FALSE, val |-> <<>>]

SomeXTest(x) == [set |-> TRUE, val |-> x]

EmptyEntry == [path |-> <<>>, file |-> <<>>, clf_result |-> <<>>]

\* d[cat][key] = v, creating the category on first access.
SetKey(d, cat, key, v) ==
    [c \in DOMAIN d \cup {cat} |->
        IF c = cat
        THEN [(IF cat \in DOMAIN d THEN d[cat] ELSE EmptyEntry) EXCEPT ![key] = v]
        ELSE d[c]]

\* d[cat][key].append(v)
AppendKey(d, cat, key, v) == SetKey(d, cat, key, Append(d[cat][key], v))

\* "doc_%d" % i
DocName(i) == <<"d", "o", "c", "_">> \o IntToStr(i)

X_TEST == <<":", "x", "_", "t", "e", "s", "t", ":">>

LINE == <<":", "l", "i", "n", "e", ":">>

\* The locator of document i of the in-memory array.
XTestLocator(i) == <<":", "x", "_", "t", "e", "s", "t", ":">> \o IntToStr(i)

\* r[0][0] if r[0][1] else unkwon_cat_i
ClfResult(r, unkwon_cat_i) == IF r.conf # 0 THEN r.cat ELSE unkwon_cat_i

\* The elements of a sequence.
Range(q) == {q[k] : k \in 1..Len(q)}

\* What a call on the index leaves behind: the index, the document array,
\* whether an exception ended the call, and its return value.
IndexResult(d, x, raised, rv) ==
    [docs |-> d, x_test |-> x, raised |-> raised, ret |-> rv]

\* __clear_testset__()
clear_testset == IndexResult(NoDocs, NoXTest, FALSE, FALSE)

\* Lines 261-264 of set_testset: an empty record for every label.
RECURSIVE init_categories(_, _)
init_categories(d, cats) ==
    IF cats = {} THEN d
    ELSE LET cat == CHOOSE c \in cats : TRUE
         IN  init_categories(SetKey(SetKey(SetKey(d, cat, "path", <<>>),
                                           cat, "file", <<>>),
                                    cat, "clf_result", <<>>),
                             cats \ {cat})

\* The document loop naming each document by its position within its
\* category instead of its position in x_test.
RECURSIVE testset_loop_by_category(_, _, _, _, _, _)
testset_loop_by_category(d, xs, ys, rs, unkwon_cat_i, idoc) ==
    IF idoc >= Len(xs) THEN [docs |-> d, raised |-> FALSE]
    ELSE IF idoc >= Len(ys)
         THEN [docs |-> d, raised |-> TRUE]
    ELSE LET cat == ys[idoc + 1]
             pos == Len(d[cat]["file"])
             d1  == AppendKey(d, cat, "file", DocName(pos))
             d2  == AppendKey(d1, cat, "path", X_TEST \o IntToStr(pos))
             r   == rs[idoc + 1]
         IN  IF r.raises THEN [docs |-> d2, raised |-> TRUE]
             ELSE testset_loop_by_category(
                      AppendKey(d2, cat, "clf_result", ClfResult(r, unkwon_cat_i)),
                      xs, ys, rs, unkwon_cat_i, idoc + 1)

\* Lines 266-276 of set_testset: the loop over the documents from idoc on
\* (0-based); rs[idoc + 1] is what classify() does on document idoc.
RECURSIVE testset_loop(_, _, _, _, _, _)
testset_loop(d, xs, ys, rs, unkwon_cat_i, idoc) ==
    IF idoc >= Len(xs) THEN [docs |-> d, raised |-> FALSE]
    ELSE IF idoc >= Len(ys)
         THEN [docs |-> d, raised |-> TRUE]     \* ys[idoc]: IndexError
    ELSE LET cat == ys[idoc + 1]
             d1  == AppendKey(d, cat, "file", DocName(idoc))
             d2  == AppendKey(d1, cat, "path", X_TEST \o IntToStr(idoc))
             r   == rs[idoc + 1]
         IN  IF r.raises THEN [docs |-> d2, raised |-> TRUE]
             ELSE testset_loop(
                      AppendKey(d2, cat, "clf_result", ClfResult(r, unkwon_cat_i)),
                      xs, ys, rs, unkwon_cat_i, idoc + 1)

\* set_testset(x_test, y_test) with model m attached; xs and ys are the
\* two arguments
set_testset(m, xs, ys, rs) ==
    LET unkwon_cat_i == Len(get_categories(m))
        d0  == init_categories(NoDocs, Range(ys))
        fin == testset_loop(d0, xs, ys, rs, unkwon_cat_i, 0)
    IN  IndexResult(fin.docs, SomeXTest(xs), fin.raised,
                    ~fin.raised /\ DOMAIN fin.docs # {})

(***************************************************************************)
(* Directory listing and file reading, for test sets loaded from files.    *)
(***************************************************************************)
\* The characters of file names, in character-code order.
NameChars == <<".", "A", "B", "a", "b", "d", "e", "f", "g", "h", "i", "l",
               "m", "n", "t", "x">>

CharOrd(c) == CHOOSE k \in 1..Len(NameChars) : NameChars[k] = c

\* a < b for two names (str comparison)
RECURSIVE NameLess(_, _)
NameLess(a, b) ==
    IF a = <<>> THEN b # <<>>
    ELSE IF b = <<>> THEN FALSE
    ELSE IF a[1] = b[1] THEN NameLess(Tail(a), Tail(b))
    ELSE CharOrd(a[1]) < CharOrd(b[1])

\* sorted(names)
RECURSIVE Sorted(_)
Sorted(names) ==
    IF names = {} THEN <<>>
    ELSE LET least == CHOOSE n \in names : \A o \in names \ {n} : NameLess(n, o)
         IN  <<least>> \o Sorted(names \ {least})

\* listdir(p): the names held by the directory p, in the order the file
\* system gives them (here: sorted).
listdir(p) ==
    LET node == Lookup(p)
    IN  Sorted({n[Len(n)] : n \in {e \in Dirs \cup Files :
                    Len(e) = Len(node) + 1 /\ SubSeq(e, 1, Len(node)) = node}})

\* path.isfile(p)
path_isfile(p) == Lookup(p) \in Files

\* path.splitext(file)[0]
path_splitext_root(file) ==
    Take(file, Len(file) - Len(path_splitext_ext(file)))

\* f.readlines(): the lines of a text, each with its line terminator.
RECURSIVE readlines(_, _)
readlines(text, acc) ==
    IF text = <<>> THEN (IF acc = <<>> THEN <<>> ELSE <<acc>>)
    ELSE IF text[1] = "N" THEN <<acc \o <<"N">>>> \o readlines(Tail(text), <<>>)
    ELSE readlines(Tail(text), acc \o <<text[1]>>)

\* The state a build from files threads through its loops: the index, the
\* number of classify() calls made so far, whether an exception ended it.
Build(d, k, raised) == [docs |-> d, k |-> k, raised |-> raised]

\* Lines 303-322: one category file; its lines are classified first (the
\* list comprehension), then the three lists are stored.
category_file(b, test_path, file, rs, unkwon_cat_i) ==
    LET file_path == path_join(test_path, file)
        cat       == path_splitext_root(file)
        lines     == readlines(FileText(Lookup(file_path)), <<>>)
        n_docs    == Len(lines)
        stop      == {j \in 1..n_docs : rs[b.k + j].raises}
    IN  IF ~path_isfile(file_path) THEN b
        ELSE IF stop # {}
             THEN Build(b.docs, b.k + (CHOOSE j \in stop : \A o \in stop : j <= o), TRUE)
        ELSE LET d1 == SetKey(b.docs, cat, "clf_result",
                           [j \in 1..n_docs |-> ClfResult(rs[b.k + j], unkwon_cat_i)])
                 d2 == SetKey(d1, cat, "file", [j \in 1..n_docs |-> DocName(j - 1)])
                 d3 == SetKey(d2, cat, "path",
                           [j \in 1..n_docs |-> file_path \o LINE \o IntToStr(j - 1)])
             IN  Build(d3, b.k + n_docs, FALSE)

\* Lines 333-347: the documents of one category folder, from files on.
RECURSIVE folder_docs(_, _, _, _, _, _)
folder_docs(b, cat, cat_path, files, rs, unkwon_cat_i) ==
    IF b.raised \/ files = <<>> THEN b
    ELSE LET file      == Head(files)
             file_path == path_join(cat_path, file)
         IN  IF ~path_isfile(file_path)
             THEN folder_docs(b, cat, cat_path, Tail(files), rs, unkwon_cat_i)
             ELSE LET d1 == AppendKey(b.docs, cat, "path", file_path)
                      d2 == AppendKey(d1, cat, "file", file)
                      r  == rs[b.k + 1]
                  IN  IF r.raises THEN Build(d2, b.k + 1, TRUE)
                      ELSE folder_docs(
                               Build(AppendKey(d2, cat, "clf_result",
                                               ClfResult(r, unkwon_cat_i)),
                                     b.k + 1, FALSE),
                               cat, cat_path, Tail(files), rs, unkwon_cat_i)

\* Lines 325-347: one entry of test_path taken as a category folder.
category_folder(b, test_path, cat, rs, unkwon_cat_i) ==
    LET cat_path == path_join(test_path, cat)
    IN  IF path_isfile(cat_path) THEN b
        ELSE folder_docs(Build(init_categories(b.docs, {cat}), b.k, FALSE),
                         cat, cat_path, listdir(cat_path), rs, unkwon_cat_i)

\* The loop over listdir(test_path) in either mode.
RECURSIVE from_files_loop(_, _, _, _, _, _)
from_files_loop(b, test_path, entries, folder_label, rs, unkwon_cat_i) ==
    IF b.raised \/ entries = <<>> THEN b
    ELSE from_files_loop(
             IF folder_label
             THEN category_folder(b, test_path, Head(entries), rs, unkwon_cat_i)
             ELSE category_file(b, test_path, Head(entries), rs, unkwon_cat_i),
             test_path, Tail(entries), folder_label, rs, unkwon_cat_i)

\* set_testset_from_files(test_path, folder_label) with model m attached
set_testset_from_files(m, test_path, folder_label, rs) ==
    LET fin == from_files_loop(Build(NoDocs, 0, FALSE), test_path, listdir(test_path),
                               folder_label, rs, Len(get_categories(m)))
    IN  IndexResult(fin.docs, NoXTest, fin.raised, ~fin.raised /\ DOMAIN fin.docs # {})

(***************************************************************************)
(* Request handlers.                                                       *)
(***************************************************************************)
POST == <<"P", "O", "S", "T">>

ACK == <<"a", "c", "k">>

CLASSIFY == <<"c", "l", "a", "s", "s", "i", "f", "y">>

GET_INFO == <<"g", "e", "t", "_", "i", "n", "f", "o">>

GET_DOC == <<"g", "e", "t", "_", "d", "o", "c">>

NoSend == Outcome(<<>>, FALSE, <<>>)

Raise == Outcome(<<>>, TRUE, <<>>)

\* Texts are sequences of units: a unit is one ASCII character, except "N"
\* (the two characters \r\n) and "U" (one character outside ASCII, two
\* bytes in UTF-8).
\* len(text): the number of characters.
StrLen(text) == Len(text) + Cardinality({k \in 1..Len(text) : text[k] = "N"})

\* len(text.encode("utf-8")): the number of bytes.
Utf8Len(text) ==
    Len(text) + Cardinality({k \in 1..Len(text) : text[k] \in {"N", "U"}})

\* json.dumps with ensure_ascii=False: a character outside ASCII is
\* written as it is.
json_escape_raw(u) ==
    IF u = "N" THEN <<"\\", "r", "\\", "n">>
    ELSE IF u \in {"\"", "\\"} THEN <<"\\", u>>
    ELSE <<u>>

\* json.dumps (ensure_ascii is on by default): how one unit of a string is
\* written.
json_escape(u) ==
    IF u = "U" THEN <<"\\", "u", "0", "0", "e", "9">>
    ELSE IF u = "N" THEN <<"\\", "r", "\\", "n">>
    ELSE IF u \in {"\"", "\\"} THEN <<"\\", u>>
    ELSE <<u>>

RECURSIVE json_chars(_)
json_chars(text) ==
    IF text = <<>> THEN <<>> ELSE json_escape(Head(text)) \o json_chars(Tail(text))

\* json.dumps of a str
json_str(text) == <<"\"">> \o json_chars(text) \o <<"\"">>

\* json.dumps of a list whose items are already written
RECURSIVE json_items(_)
json_items(items) ==
    IF items = <<>> THEN <<>>
    ELSE IF Len(items) = 1 THEN items[1]
    ELSE items[1] \o <<",", " ">> \o json_items(Tail(items))

json_list(items) == <<"[">> \o json_items(items) \o <<"]">>

json_dict(items) == <<"{">> \o json_items(items) \o <<"}">>

json_pair(key, val) == json_str(key) \o <<":", " ">> \o val

\* __send_as_json__(sock, data), data being the text json.dumps made: the
\* header carries len(data), the body sent is data.encode(ENCODING).
send_as_json(data) ==
    Outcome(<<Header(200, content_type(<<"j", "s", "o", "n">>), StrLen(data)),
              Body(Utf8Len(data))>>,
            FALSE, <<>>)

\* json.dumps({"content": doc})
content_json(doc) ==
    json_dict(<<json_pair(<<"c", "o", "n", "t", "e", "n", "t">>, json_str(doc))>>)

\* json.dumps of one record of the index
entry_json(e) ==
    json_dict(<<json_pair(<<"p", "a", "t", "h">>,
                          json_list([k \in 1..Len(e.path) |-> json_str(e.path[k])])),
                json_pair(<<"f", "i", "l", "e">>,
                          json_list([k \in 1..Len(e.file) |-> json_str(e.file[k])])),
                json_pair(<<"c", "l", "f", "_", "r", "e", "s", "u", "l", "t">>,
                          json_list([k \in 1..Len(e.clf_result) |->
                                        IntToStr(e.clf_result[k])]))>>)

\* The pairs of Server.__docs__, one per category.
RECURSIVE docs_pairs(_, _)
docs_pairs(d, cats) ==
    IF cats = {} THEN <<>>
    ELSE LET c == CHOOSE e \in cats : TRUE
         IN  <<json_pair(c, entry_json(d[c]))>> \o docs_pairs(d, cats \ {c})

\* json.dumps of the get_info object (lines 186-191); the model's name is
\* "m" and it has no hyperparameters.
info_json(m, d) ==
    LET cats == get_categories(m) \o <<<<"[", "u", "n", "k", "n", "o", "w", "n", "]">>>>
    IN  json_dict(<<json_pair(<<"m", "o", "d", "e", "l", "_", "n", "a", "m", "e">>,
                              json_str(<<"m">>)),
                    json_pair(<<"h", "p", "s">>, json_dict(<<>>)),
                    json_pair(<<"c", "a", "t", "e", "g", "o", "r", "i", "e", "s">>,
                              json_list([k \in 1..Len(cats) |-> json_str(cats[k])])),
                    json_pair(<<"d", "o", "c", "s">>,
                              json_dict(docs_pairs(d, DOMAIN d)))>>)

\* json.dumps of what classify(doc, json=True) returns: the category and
\* the confidence.
classify_json(r) ==
    json_dict(<<json_pair(<<"c", "i">>, IntToStr(r.cat)),
                json_pair(<<"c", "v">>, IntToStr(r.conf))>>)

\* fdoc.readline(): the text up to and including the first line end (all
\* of it when there is none) and what is left of the file.
RECURSIVE readline(_, _)
readline(text, acc) ==
    IF text = <<>> THEN [line |-> acc, rest |-> <<>>]
    ELSE IF text[1] = "N" THEN [line |-> Append(acc, "N"), rest |-> Tail(text)]
    ELSE readline(Tail(text), Append(acc, text[1]))

\* The loop with the test line <= line_n: one readline() too many.
RECURSIVE readline_loop_inclusive(_, _, _, _)
readline_loop_inclusive(rest, doc, line, line_n) ==
    IF line <= line_n
    THEN LET nxt == readline(rest, <<>>)
         IN  readline_loop_inclusive(nxt.rest, nxt.line, line + 1, line_n)
    ELSE doc

\* Lines 205-207: while line < line_n: doc = fdoc.readline(); line += 1
RECURSIVE readline_loop(_, _, _, _)
readline_loop(rest, doc, line, line_n) ==
    IF line < line_n
    THEN LET nxt == readline(rest, <<>>)
         IN  readline_loop(nxt.rest, nxt.line, line + 1, line_n)
    ELSE doc

\* Lines 203-207: the first readline(), then the loop; the line read last.
read_line(text, line_n) ==
    LET first == readline(text, <<>>)
    IN  readline_loop(first.rest, first.line, 0, line_n)

\* The lookup with the in-memory array indexed from 1.
get_doc_text_from_one(file, x) ==
    IF Contains(file, X_TEST)
    THEN IF x.set /\ x.val # <<>>
         THEN LET idoc == ParseInt(Split(file, X_TEST)[2]) IN
              IF ~idoc.ok \/ idoc.val < 1 \/ idoc.val > Len(x.val) THEN Raised
              ELSE Ok(x.val[idoc.val])
         ELSE Ok(<<>>)
    ELSE Raised

\* The document a locator names (lines 198-214 of __do_get_doc__), or the
\* exception the lookup ends with.
get_doc_text(file, x) ==
    IF Contains(file, LINE)
    THEN LET parts == Split(file, LINE) IN
         IF Len(parts) # 2 THEN Raised                \* unpacking: ValueError
         ELSE LET line_n == ParseInt(parts[2]) IN
              IF ~line_n.ok THEN Raised                \* int(): ValueError
              ELSE IF ~path_isfile(parts[1]) THEN Raised   \* open(): IOError
              ELSE Ok(read_line(FileText(Lookup(parts[1])), line_n.val))
    ELSE IF Contains(file, X_TEST)
    THEN IF x.set /\ x.val # <<>>
         THEN LET idoc == ParseInt(Split(file, X_TEST)[2]) IN
              IF ~idoc.ok THEN Raised                  \* int(): ValueError
              ELSE IF idoc.val >= Len(x.val) THEN Raised   \* IndexError
              ELSE Ok(x.val[idoc.val + 1])
         ELSE Ok(<<>>)
    ELSE IF path_isfile(file) THEN Ok(FileText(Lookup(file)))
    ELSE Raised                                        \* open(): IOError

\* __do_get_doc__(sock, file)
do_get_doc(file, x) ==
    LET doc == get_doc_text(file, x)
    IN  IF doc.ok THEN send_as_json(content_json(doc.val)) ELSE Raise

\* __do_ack__(sock)
do_ack == Outcome(<<Header(200, content_type(<<>>), 0)>>, FALSE, <<>>)

\* __do_classify__ without its try/except: the classifier's exception
\* leaves the handler.
do_classify_uncaught(r) ==
    IF r.raises THEN Raise ELSE send_as_json(classify_json(r))

\* __do_classify__(sock, doc): r is what clf.classify(doc, json=True) does;
\* its exception is caught.
do_classify(r) ==
    IF r.raises THEN NoSend ELSE send_as_json(classify_json(r))

\* __do_get_info__(sock)
do_get_info(m, d) == send_as_json(info_json(m, d))

\* The routing with a final else branch that answers an unknown operation
\* name with the 404 response.
route_post_answering(op, text, r, m, d, x) ==
    IF op = ACK THEN do_ack
    ELSE IF op = CLASSIFY THEN do_classify(r)
    ELSE IF op = GET_INFO THEN do_get_info(m, d)
    ELSE IF op = GET_DOC THEN do_get_doc(text, x)
    ELSE Outcome(<<HTTP_404>>, FALSE, <<>>)

\* Lines 137-144: the routing of a POST by its operation name.
route_post(op, text, r, m, d, x) ==
    IF op = ACK THEN do_ack
    ELSE IF op = CLASSIFY THEN do_classify(r)
    ELSE IF op = GET_INFO THEN do_get_info(m, d)
    ELSE IF op = GET_DOC THEN do_get_doc(text, x)
    ELSE NoSend

(***************************************************************************)
(* Connections.  A connection is "new" until its client connects,          *)
(* "pending" while it waits in the listener's queue, "open" once accepted, *)
(* "closed" after the server closed it, "reset" when the listener was      *)
(* closed under it, and "abandoned" when serve ended while it was open:    *)
(* no close() was called on it, and clients, the only list that names it,  *)
(* is gone, so nothing reads it any more.  out is what the client has still to send, inbuf what  *)
(* has arrived and was not read yet, eof whether the client closed its     *)
(* side, sent the send() calls made on the socket, handled the number of   *)
(* __handle_request__ calls on it, got the body __recvall_body__ returned  *)
(* (a list of at most one text).  op is the operation name the handler       *)
(* routed (a list of at most one name), end how the handler of the    *)
(* connection ended ("returned", "raised", or "" while it has not),        *)
(* clf_raised whether classify() raised while the connection was served.   *)
(***************************************************************************)
LISTENER == 0

ConnIds == 1..MaxConns

FreshConn ==
    [st |-> "new", out |-> <<>>, inbuf |-> <<>>, eof |-> FALSE,
     sent |-> <<>>, handled |-> 0, got |-> <<>>,
     op |-> <<>>, end |-> "", clf_raised |-> FALSE]

\* Request texts.  "H" stands for the protocol version of the request line.
GetText(path) == <<"G", "E", "T", " ">> \o path \o <<" ", "H", "N", "N">>

PostHead(op, declared) ==
    POST \o <<" ", "/">> \o op \o <<" ", "H", "N", "C", ":", " ">>
         \o IntToStr(declared) \o BLANK_LINE

\* The requests clients of the dispatcher send, each as the list of
\* pieces that arrive one after the other.
Requests ==
    { <<GetText(<<"/">>)>>,                              \* the index page
      <<GetText(<<"/", "x">>)>>,                         \* no such file
      <<<<"G", "E", "T", "N", "N">>>>,                   \* no path token
      <<PostHead(ACK, 0)>>,
      <<POST \o <<" ", "/">> \o ACK \o <<" ", "H", "N">>>>,   \* no blank line
      <<PostHead(<<"b", "o", "g", "u", "s">>, 0)>>,
      <<PostHead(GET_INFO, 0)>>,
      <<PostHead(CLASSIFY, 2) \o <<"p">>, <<"q">>>>,      \* body in two reads
      <<PostHead(CLASSIFY, 2) \o <<"p">>>>,               \* body withheld
      <<PostHead(GET_DOC, 9) \o X_TEST \o <<"1">>>>,
      <<PostHead(GET_DOC, 2) \o <<"/", "u">>>>,           \* unreadable file
      <<>> }                                             \* nothing at all

(***************************************************************************)
(* Clients.                                                                *)
(***************************************************************************)
\* A client connects and sends the first piece of req.
Connect(c, req) ==
    /\ server_socket = "listening"
    /\ conn[c].st = "new"
    /\ \A k \in 1..(c - 1) : conn[k].st # "new"
    /\ conn' = [conn EXCEPT ![c].st = "pending",
                            ![c].inbuf = IF req = <<>> THEN <<>> ELSE Head(req),
                            ![c].out = IF req = <<>> THEN <<>> ELSE Tail(req)]
    /\ backlog' = Append(backlog, c)
    /\ UNCHANGED <<serverVars, loopVars, getVars>>

\* The next piece of a client's request arrives.
ClientSend(c) ==
    /\ conn[c].st \in {"pending", "open"}
    /\ ~conn[c].eof
    /\ conn[c].out # <<>>
    /\ conn' = [conn EXCEPT ![c].inbuf = @ \o Head(conn[c].out),
                            ![c].out = Tail(@)]
    /\ UNCHANGED <<backlog, serverVars, loopVars, getVars>>

\* A client closes its side once all it sent has been read (the server
\* reads what has arrived before it can notice the end of the stream).
ClientClose(c) ==
    /\ conn[c].st \in {"pending", "open"}
    /\ ~conn[c].eof
    /\ conn[c].out = <<>>
    /\ conn[c].inbuf = <<>>
    /\ conn' = [conn EXCEPT ![c].eof = TRUE]
    /\ UNCHANGED <<backlog, serverVars, loopVars, getVars>>

(***************************************************************************)
(* Server.serve: the dispatcher.                                           *)
(***************************************************************************)
\* select() reports a socket when a read on it would not block.
Readable(sock) ==
    IF sock = LISTENER THEN backlog # <<>>
    ELSE conn[sock].inbuf # <<>> \/ conn[sock].eof

NoLocals ==
    /\ cur' = 0
    /\ method' = <<>>
    /\ cont_length' = 0
    /\ body' = <<>>

\* Line 432: select(clients, [], []) returns the ready sockets.
Select ==
    /\ pc = "select"
    /\ \E k \in 1..Len(clients) : Readable(clients[k])
    /\ read_socks' = SelectSeq(clients, Readable)
    /\ pc' = "for"
    /\ UNCHANGED <<clients, cur, method, cont_length, body, serverVars, netVars,
                   getVars>>

\* A dispatcher that accepts on a thread of its own: a queued connection is
\* taken also while a handler waits for the rest of a body.
AcceptWhileReceiving ==
    /\ pc \in {"for", "recv"}
    /\ backlog # <<>>
    /\ pc = "for" => Head(read_socks) = LISTENER
    /\ LET sockfd == Head(backlog)
       IN  /\ clients' = Append(clients, sockfd)
           /\ conn' = [conn EXCEPT ![sockfd].st = "open"]
           /\ backlog' = Tail(backlog)
    /\ read_socks' = IF pc = "recv" THEN read_socks ELSE Tail(read_socks)
    /\ pc' = IF pc = "recv" THEN "recv"
             ELSE IF Tail(read_socks) = <<>> THEN "select" ELSE "for"
    /\ UNCHANGED <<cur, method, cont_length, body, serverVars, getVars>>

\* Lines 436-443: the listener is ready, accept() takes the first queued
\* connection.
Accept ==
    /\ pc = "for"
    /\ Head(read_socks) = LISTENER
    /\ LET sockfd == Head(backlog)
       IN  /\ clients' = Append(clients, sockfd)
           /\ conn' = [conn EXCEPT ![sockfd].st = "open"]
           /\ backlog' = Tail(backlog)
    /\ read_socks' = Tail(read_socks)
    /\ pc' = IF Tail(read_socks) = <<>> THEN "select" ELSE "for"
    /\ UNCHANGED <<cur, method, cont_length, body, serverVars, getVars>>

\* The connections when serve ends with cn: the accepted ones that are
\* still open stay unclosed, and what their clients do is no longer seen.
Abandon(cn) ==
    [c \in ConnIds |->
        IF cn[c].st = "open"
        THEN [cn[c] EXCEPT !.st = "abandoned", !.out = <<>>, !.inbuf = <<>>,
                           !.eof = FALSE]
        ELSE cn[c]]

\* An exception leaves __handle_request__: serve catches KeyboardInterrupt
\* only, so it leaves serve too, with every socket as it is.
Propagate(sock, cn) ==
    /\ pc' = "idle"
    /\ ret' = "raised"
    /\ clients' = <<>>
    /\ read_socks' = <<>>
    /\ conn' = Abandon([cn EXCEPT ![sock].end = "raised"])
    /\ NoLocals
    /\ UNCHANGED <<clf, docs, x_test, port, server_socket, docs_clf, call, backlog,
                   getVars>>

\* Lines 446-448: the handler returned having made the send() calls o.sent,
\* the connection is dropped from clients and closed.
CloseClient(sock, cn, o, text) ==
    /\ clients' = SelectSeq(clients, LAMBDA k : k # sock)
    /\ conn' = [cn EXCEPT ![sock] = [FreshConn EXCEPT
                   !.st = "closed", !.sent = o.sent, !.got = text,
                   !.handled = cn[sock].handled, !.op = cn[sock].op,
                   !.end = "returned", !.clf_raised = cn[sock].clf_raised]]
    /\ read_socks' = Tail(read_socks)
    /\ pc' = IF Tail(read_socks) = <<>> THEN "select" ELSE "for"
    /\ NoLocals
    /\ UNCHANGED <<serverVars, backlog, getVars>>

\* cn with the notes of the routing of sock's POST: the operation name
\* routed, and whether classify() was called and raised (r is what it does).
Routed(cn, sock, op, r) ==
    [cn EXCEPT ![sock].op = <<op>>,
               ![sock].clf_raised = (op = CLASSIFY /\ r.raises)]

\* The handler ended with outcome o.
Finish(sock, cn, o, text) ==
    IF o.raised THEN Propagate(sock, cn) ELSE CloseClient(sock, cn, o, text)

\* Line 445, up to the first point where __handle_request__ blocks: the
\* first recv(), the parsing of the request, and for a GET or a POST whose
\* body is complete the whole handler and lines 446-448.
HandleRequest ==
    /\ pc = "for"
    /\ Head(read_socks) # LISTENER
    /\ LET sock == Head(read_socks)
           data == conn[sock].inbuf
           cn   == [conn EXCEPT ![sock].handled = @ + 1, ![sock].inbuf = <<>>]
           path == get_http_path(data)
           b0   == get_http_body(data)
           len  == get_http_contlength(data)
       IN  \E r \in ClassifyOutcomes(clf) :
           IF data = <<>> THEN Finish(sock, cn, NoSend, <<>>)
           ELSE IF ~path.ok THEN Finish(sock, cn, Raise, <<>>)
           ELSE IF StartsWith(data, POST)
                THEN IF ~b0.ok THEN Finish(sock, cn, Raise, <<>>)
                     ELSE IF StrLen(b0.val) < len
                          THEN /\ pc' = "recv"
                               /\ cur' = sock
                               /\ method' = Drop(path.val, 1)
                               /\ cont_length' = len
                               /\ body' = b0.val
                               /\ conn' = cn
                               /\ UNCHANGED <<clients, read_socks, serverVars,
                                              backlog, getVars>>
                          ELSE Finish(sock, Routed(cn, sock, Drop(path.val, 1), r),
                                      route_post(Drop(path.val, 1), url_decode(b0.val),
                                                 r, clf, docs, x_test),
                                      <<url_decode(b0.val)>>)
           ELSE Finish(sock, cn, handle_get(path.val), <<>>)

\* Lines 114-115: __recvall_body__ blocked in recv() gets what has arrived;
\* with the body complete the handler runs to its end.
RecvBody ==
    /\ pc = "recv"
    /\ conn[cur].inbuf # <<>>
    /\ LET b1 == body \o conn[cur].inbuf
           cn == [conn EXCEPT ![cur].inbuf = <<>>]
       IN  \E r \in ClassifyOutcomes(clf) :
           IF StrLen(b1) < cont_length
           THEN /\ body' = b1
                /\ conn' = cn
                /\ UNCHANGED <<pc, clients, read_socks, cur, method, cont_length,
                               serverVars, backlog, getVars>>
           ELSE Finish(cur, Routed(cn, cur, method, r),
                       route_post(method, url_decode(b1), r, clf, docs, x_test),
                       <<url_decode(b1)>>)

\* Lines 449-452: KeyboardInterrupt while serve waits; the listener is
\* closed, and with it the connections still queued on it.
Interrupt ==
    /\ pc \in {"select", "recv"}
    /\ server_socket' = "None"
    /\ pc' = "idle"
    /\ ret' = "interrupted"
    /\ clients' = <<>>
    /\ read_socks' = <<>>
    /\ NoLocals
    /\ backlog' = <<>>
    /\ conn' = [c \in ConnIds |->
                  IF conn[c].st = "pending"
                  THEN [FreshConn EXCEPT !.st = "reset"] ELSE Abandon(conn)[c]]
    /\ UNCHANGED <<clf, docs, x_test, port, docs_clf, call, getVars>>

(***************************************************************************)
(* The public interface, called while serve() is not running.  ret is how  *)
(* the last call ended: "ok" (for the builders: returned True), "empty"    *)
(* (returned False), "error" (an error was reported and the call           *)
(* returned), "raised" (an exception left the call), "serving" (serve is   *)
(* in its loop), "interrupted" (serve returned after KeyboardInterrupt).   *)
(***************************************************************************)
Labels == {<<"A">>, <<"B">>}

\* The document at position i of a test set (0-based).
DocText(i) == <<"d", "U">> \o IntToStr(i)

\* The test sets of n documents, n = 0..MaxDocs.
TestDocs == {[i \in 1..n |-> DocText(i - 1)] : n \in 0..MaxDocs}

TestLabels == SeqsUpTo(Labels, MaxDocs)

TestPaths == {<<"/", "t">>}

FreePorts == {2}

\* The record of a call: its name, the lengths of the two lists it was
\* given, the model it was given (0 when it takes none), and the labels
\* y_test given to set_testset.
Call(op, nx, ny, m, ys) == [op |-> op, nx |-> nx, ny |-> ny, clf |-> m, y |-> ys]

\* The index and document array after a builder call.
Built(t, m) ==
    /\ docs' = t.docs
    /\ x_test' = t.x_test
    /\ docs_clf' = m
    /\ ret' = IF t.raised THEN "raised" ELSE IF t.ret THEN "ok" ELSE "empty"

\* Server.set_model(clf)
SetModel(m) ==
    /\ pc = "idle"
    /\ clf' = m
    /\ docs' = clear_testset.docs
    /\ x_test' = clear_testset.x_test
    /\ docs_clf' = NoClf
    /\ ret' = "ok"
    /\ call' = Call("set_model", 0, 0, m, <<>>)
    /\ UNCHANGED <<port, server_socket, loopVars, netVars, getVars>>

\* Server.__clear_testset__()
ClearTestset ==
    /\ pc = "idle"
    /\ docs' = clear_testset.docs
    /\ x_test' = clear_testset.x_test
    /\ docs_clf' = NoClf
    /\ ret' = "ok"
    /\ call' = Call("clear_testset", 0, 0, NoClf, <<>>)
    /\ UNCHANGED <<clf, port, server_socket, loopVars, netVars, getVars>>

\* Server.set_testset(x_test, y_test); without a model line 259 raises
\* AttributeError, after the clear and the assignment of lines 256-257.
SetTestset(xs, ys, rs) ==
    /\ pc = "idle"
    /\ IF clf = NoClf
       THEN Built(IndexResult(NoDocs, SomeXTest(xs), TRUE, FALSE), NoClf)
       ELSE Built(set_testset(clf, xs, ys, rs), clf)
    /\ call' = Call("set_testset", Len(xs), Len(ys), NoClf, ys)
    /\ UNCHANGED <<clf, port, server_socket, loopVars, netVars, getVars>>

\* Server.set_testset_from_files(test_path, folder_label)
SetTestsetFromFiles(test_path, folder_label, rs) ==
    /\ pc = "idle"
    /\ IF clf = NoClf
       THEN Built(IndexResult(NoDocs, NoXTest, TRUE, FALSE), NoClf)
       ELSE Built(set_testset_from_files(clf, test_path, folder_label, rs), clf)
    /\ call' = Call("set_testset_from_files", 0, 0, NoClf, <<>>)
    /\ UNCHANGED <<clf, port, server_socket, loopVars, netVars, getVars>>

\* Line 420-428: serve enters its loop.
EnterLoop ==
    /\ pc' = "select"
    /\ clients' = <<LISTENER>>
    /\ read_socks' = <<>>
    /\ NoLocals

\* Server.serve(clf, x_test, y_test, port), lines 404-428.  An argument
\* left out (None) is 0 for clf and <<>> for the lists.
ServeCall(c, xs, ys, p, rs) ==
    /\ pc = "idle"
    /\ call' = Call("serve", Len(xs), Len(ys), c, <<>>)
    /\ LET m == IF c # NoClf THEN c ELSE clf
       IN  /\ clf' = m
           /\ IF m = NoClf
              THEN /\ ret' = "error"
                   /\ UNCHANGED <<docs, x_test, docs_clf, port, server_socket, loopVars>>
              ELSE /\ server_socket' = "listening"
                   /\ IF server_socket = "None"
                      THEN \E q \in FreePorts : port' = IF p = 0 THEN q ELSE p
                      ELSE port' = port
                   /\ IF xs # <<>>
                      THEN IF ys # <<>> /\ Len(ys) = Len(xs)
                           THEN LET t == set_testset(m, xs, ys, rs)
                                IN  /\ docs' = t.docs
                                    /\ x_test' = t.x_test
                                    /\ docs_clf' = m
                                    /\ IF t.raised
                                       THEN ret' = "raised" /\ UNCHANGED loopVars
                                       ELSE ret' = "serving" /\ EnterLoop
                           ELSE /\ ret' = "error"
                                /\ UNCHANGED <<docs, x_test, docs_clf, loopVars>>
                      ELSE /\ ret' = "serving"
                           /\ EnterLoop
                           /\ UNCHANGED <<docs, x_test, docs_clf>>
    /\ UNCHANGED <<netVars, getVars>>

(***************************************************************************)
(* The server object and its interface, from construction on.              *)
(***************************************************************************)
InitServer ==
    /\ clf = NoClf
    /\ docs = NoDocs
    /\ x_test = NoXTest
    /\ port = 0
    /\ server_socket = "None"
    /\ ret = "ok"
    /\ docs_clf = NoClf
    /\ call = Call("", 0, 0, NoClf, <<>>)

InitLoop ==
    /\ pc = "idle"
    /\ clients = <<>>
    /\ read_socks = <<>>
    /\ cur = 0
    /\ method = <<>>
    /\ cont_length = 0
    /\ body = <<>>

InitNet ==
    /\ conn = [c \in ConnIds |-> FreshConn]
    /\ backlog = <<>>

NoOutcome == Outcome(<<>>, FALSE, <<>>)

IdleGet ==
    /\ g_path = <<>>
    /\ g_out = NoOutcome
    /\ r_body = <<>>

\* The number of classify() calls set_testset(xs, ys) can make.
Calls(xs, ys) == IF Len(xs) <= Len(ys) THEN Len(xs) ELSE Len(ys)

InitIndex == InitServer /\ InitLoop /\ InitNet /\ IdleGet

NextIndex ==
    \/ \E m \in Models : SetModel(m)
    \/ ClearTestset
    \/ \E xs \in TestDocs, ys \in TestLabels :
           \E rs \in [1..Calls(xs, ys) -> ClassifyOutcomes(IF clf = NoClf THEN 1 ELSE clf)] :
               SetTestset(xs, ys, rs)
    \/ \E test_path \in TestPaths, folder_label \in BOOLEAN :
           \E rs \in [1..MaxDocs -> ClassifyOutcomes(IF clf = NoClf THEN 1 ELSE clf)] :
               SetTestsetFromFiles(test_path, folder_label, rs)
    \/ \E c \in Models \cup {NoClf}, xs \in TestDocs, ys \in TestLabels :
           \E rs \in [1..(IF Len(ys) = Len(xs) THEN Len(xs) ELSE 0) ->
                          ClassifyOutcomes(IF c # NoClf THEN c ELSE
                                           IF clf = NoClf THEN 1 ELSE clf)] :
               ServeCall(c, xs, ys, 0, rs)
    \/ Interrupt

SpecIndex == InitIndex /\ [][NextIndex]_vars

(***************************************************************************)
(* Builds only: the test set is attached again and again, from memory with *)
(* as many labels as documents or from files, between set_model and clear  *)
(* calls.  The classifier answers with its first category, is not          *)
(* confident, or raises.                                                   *)
(***************************************************************************)
BuildOutcomes(m) == {o \in ClassifyOutcomes(m) : o.cat = 0}

BuildModel == IF clf = NoClf THEN 1 ELSE clf

\* The directories a test set is read from: one of category folders and
\* files, one of files only.
BuildPaths == TestPaths \cup {<<"/", "t", "/", "A">>}

NextBuild ==
    \/ \E m \in Models : SetModel(m)
    \/ ClearTestset
    \/ \E xs \in TestDocs, ys \in TestLabels :
           /\ Len(xs) = Len(ys)
           /\ \E rs \in [1..Len(xs) -> BuildOutcomes(BuildModel)] :
                  SetTestset(xs, ys, rs)
    \/ \E test_path \in BuildPaths, folder_label \in BOOLEAN :
           \E rs \in [1..MaxDocs -> BuildOutcomes(BuildModel)] :
               SetTestsetFromFiles(test_path, folder_label, rs)

SpecBuild == InitIndex /\ [][NextBuild]_vars

(***************************************************************************)
(* The dispatcher at work: a model and a two-document test set are         *)
(* attached, serve() listens and waits in select().                        *)
(***************************************************************************)
ServedTestset ==
    set_testset(1, <<DocText(0), DocText(1)>>, <<<<"A">>, <<"B">>>>,
                <<[raises |-> FALSE, cat |-> 0, conf |-> 1],
                  [raises |-> FALSE, cat |-> 0, conf |-> 0]>>)

Serving ==
    /\ clf = 1
    /\ docs = ServedTestset.docs
    /\ x_test = ServedTestset.x_test
    /\ docs_clf = 1
    /\ port \in FreePorts
    /\ server_socket = "listening"
    /\ ret = "serving"
    /\ call = Call("serve", 0, 0, NoClf, <<>>)

\* serve() waits in select() with the sockets cl in its list.
Waiting(cl) ==
    /\ pc = "select"
    /\ clients = cl
    /\ read_socks = <<>>
    /\ cur = 0
    /\ method = <<>>
    /\ cont_length = 0
    /\ body = <<>>

InitServing == Serving /\ Waiting(<<LISTENER>>)

Init == InitServing /\ InitNet /\ IdleGet

Next ==
    \/ \E c \in ConnIds, req \in Requests : Connect(c, req)
    \/ \E c \in ConnIds : ClientSend(c)
    \/ \E c \in ConnIds : ClientClose(c)
    \/ Select
    \/ Accept
    \/ HandleRequest
    \/ RecvBody
    \/ Interrupt
    \/ ServeCall(NoClf, <<>>, <<>>, 0, <<>>)

Spec == Init /\ [][Next]_vars

(***************************************************************************)
(* Resolver run: every GET path over the alphabet, handed to the GET       *)
(* branch once.                                                            *)
(***************************************************************************)
PathChars == {"/", ".", "a"}

InitGet ==
    /\ InitServing
    /\ InitNet
    /\ g_path \in SeqsUpTo(PathChars, MaxPathLen)
    /\ g_out = NoOutcome
    /\ r_body = <<>>

GetRequest ==
    /\ g_out = NoOutcome
    /\ g_out' = handle_get(g_path)
    /\ UNCHANGED <<g_path, r_body, serverVars, loopVars, netVars>>

NextGet == GetRequest

SpecGet == InitGet /\ [][NextGet]_vars

\* C1: every GET path resolves to a local path inside the base resource
\* directory BASE_PATH.
C1_ResolvedUnderBase ==
    g_out # NoOutcome => UnderBase(g_out.local)

\* C8: every GET is answered with the 200 file response or with the 404
\* response, and no exception leaves the handler.
C8_GetAnswered ==
    g_out # NoOutcome =>
        /\ ~g_out.raised
        /\ \/ g_out.sent = <<HTTP_404>>
           \/ /\ Len(g_out.sent) = 2
              /\ g_out.sent[1].kind = "header"
              /\ g_out.sent[1].status = 200
              /\ g_out.sent[2] = Body(g_out.sent[1].clen)

(***************************************************************************)
(* Reassembly run: one accepted connection whose client delivers a         *)
(* classify request with the declared length equal to the number of bytes  *)
(* of the body, the body cut into pieces in every way; the first piece     *)
(* (which may be empty) arrives with the head.                             *)
(***************************************************************************)
BodyChars == {"%", "4", "N", "U"}

\* b cut before the positions i with i - 1 in K (K a set of offsets into b).
RECURSIVE Cut(_, _, _, _)
Cut(b, K, i, acc) ==
    IF i > Len(b) THEN <<acc>>
    ELSE IF (i - 1) \in K THEN <<acc>> \o Cut(b, K, i + 1, <<b[i]>>)
    ELSE Cut(b, K, i + 1, Append(acc, b[i]))

Pieces(b) == { Cut(b, K, 1, <<>>) : K \in SUBSET (0..(Len(b) - 1)) }

\* __recvall_body__(sock, data, length) when data holds the whole request:
\* the decoded body, or no return (the loop waits in recv()).
OneRead(data) ==
    LET b0 == get_http_body(data)
    IN  IF b0.ok /\ StrLen(b0.val) >= get_http_contlength(data)
        THEN Ok(url_decode(b0.val)) ELSE Raised

InitRecv ==
    /\ Serving
    /\ Waiting(<<LISTENER, 1>>)
    /\ backlog = <<>>
    /\ g_path = <<>>
    /\ g_out = NoOutcome
    /\ r_body \in SeqsUpTo(BodyChars, MaxBodyLen)
    /\ \E ps \in Pieces(r_body) :
          conn = [c \in ConnIds |->
                    IF c = 1
                    THEN [FreshConn EXCEPT
                            !.st = "open",
                            !.inbuf = PostHead(CLASSIFY, Utf8Len(r_body)) \o Head(ps),
                            !.out = Tail(ps)]
                    ELSE FreshConn]

NextRecv ==
    \/ ClientSend(1)
    \/ Select
    \/ HandleRequest
    \/ RecvBody

SpecRecv == InitRecv /\ [][NextRecv]_vars

\* C4: however the body is cut into reads, __recvall_body__ returns what
\* it returns when the whole request arrives in one read: the body it
\* returned is the single-read body, and it waits for ever after the last
\* piece only if the single read does.
C4_SplitReadsAgree ==
    LET one == OneRead(PostHead(CLASSIFY, Utf8Len(r_body)) \o r_body)
    IN  /\ conn[1].got # <<>> => (one.ok /\ conn[1].got[1] = one.val)
        /\ (pc = "recv" /\ conn[1].out = <<>> /\ conn[1].inbuf = <<>>) => ~one.ok

\* C17: __recvall_body__ reads again only while the accumulated body is
\* shorter than the declared Content-Length; it has returned once the client
\* has delivered the declared number of bytes; and it has not returned
\* while bytes of the declared number are still to come.
C17_RecvallTerminates ==
    /\ pc = "recv" => StrLen(body) < cont_length
    /\ (conn[1].handled > 0 /\ conn[1].out = <<>> /\ conn[1].inbuf = <<>>)
           => (pc # "recv" /\ conn[1].got # <<>>)
    /\ conn[1].got # <<>> => \A k \in 1..Len(conn[1].out) : conn[1].out[k] = <<>>

(***************************************************************************)
(* Properties of the dispatcher, checked under Spec.                       *)
(***************************************************************************)
InClients(sock) == \E k \in 1..Len(clients) : clients[k] = sock

LoopRuns == pc \in {"select", "for", "recv"}

\* C2: an error raised while one connection's request is handled is fatal to
\* that connection only: the connection is still closed, and serve ends
\* only on an external interrupt.
C2_ErrorsFatalToConnectionOnly ==
    /\ pc = "idle" => ret = "interrupted"
    /\ \A c \in ConnIds : conn[c].end = "raised" => conn[c].st = "closed"

\* C3: every connection whose handler was entered is handled exactly once
\* and, once the handler has ended, is out of the watched set and closed;
\* the listening socket is watched for as long as the loop runs.
C3_OneRequestThenClosed ==
    /\ \A c \in ConnIds :
          /\ conn[c].handled <= 1
          /\ conn[c].end # "" => conn[c].st = "closed" /\ ~InClients(c)
    /\ LoopRuns => InClients(LISTENER)

KnownOps == {ACK, CLASSIFY, GET_INFO, GET_DOC}

\* The handler of connection c came to route a POST whose operation name
\* is none of the four.
UnknownOp(c) == conn[c].op # <<>> /\ conn[c].op[1] \notin KnownOps

\* C9: when a POST with an unknown operation name is routed nothing is
\* sent on the connection, the handler returns to the loop, and the
\* connection is closed and out of the watched set.
C9_UnknownOpIgnored ==
    \A c \in ConnIds :
        UnknownOp(c) =>
            /\ conn[c].sent = <<>>
            /\ conn[c].end = "returned"
            /\ conn[c].st = "closed"
            /\ ~InClients(c)

\* C9 witness: an unknown operation was routed, its connection is closed
\* with nothing sent, and the loop runs.
C9_Witness ==
    \E c \in ConnIds :
        /\ UnknownOp(c)
        /\ conn[c].got # <<>>
        /\ conn[c].st = "closed"
        /\ conn[c].sent = <<>>
        /\ LoopRuns

\* C10: when the classifier raises during a classify request nothing is
\* sent on the connection, the handler returns to the loop, and the
\* connection is closed and out of the watched set.
C10_ClassifierErrorCaught ==
    \A c \in ConnIds :
        conn[c].clf_raised =>
            /\ conn[c].sent = <<>>
            /\ conn[c].end = "returned"
            /\ conn[c].st = "closed"
            /\ ~InClients(c)

\* C10 witness: the classifier raised on a classify request whose body
\* came in two reads, the connection is closed with nothing sent, and the
\* loop runs.
C10_Witness ==
    \E c \in ConnIds :
        /\ conn[c].clf_raised
        /\ conn[c].op = <<CLASSIFY>>
        /\ conn[c].got = <<<<"p", "q">>>>
        /\ conn[c].st = "closed"
        /\ conn[c].sent = <<>>
        /\ LoopRuns

\* C15: what was sent on a connection is nothing, or a header announcing
\* length 0 with no body after it (always so for ack and for 404), or a
\* header and a body of exactly the number of bytes the header announces.
C15_ContentLengthExact ==
    \A c \in ConnIds :
        LET s == conn[c].sent
        IN  /\ \/ s = <<>>
               \/ Len(s) = 1 /\ s[1].kind = "header" /\ s[1].clen = 0
               \/ /\ Len(s) = 2
                  /\ s[1].kind = "header"
                  /\ s[2].kind = "body"
                  /\ s[1].clen = s[2].clen
            /\ (s # <<>> /\ (conn[c].op = <<ACK>> \/ s[1].status = 404)) =>
                  (Len(s) = 1 /\ s[1].clen = 0)

\* C15 witness: get_doc answered with document 1 of the test set, which
\* holds a character outside ASCII, and the body has the announced length,
\* the 23 bytes of {"content": "d\u00e91"}.
C15_Witness ==
    \E c \in ConnIds :
        /\ conn[c].op = <<GET_DOC>>
        /\ conn[c].got = <<XTestLocator(1)>>
        /\ Len(conn[c].sent) = 2
        /\ conn[c].sent[1].clen = conn[c].sent[2].clen
        /\ conn[c].sent[2].clen = 23

\* C11: after an interrupt serve is idle with no socket left open, neither
\* the listener nor an accepted connection that was not handled yet; and
\* whenever serve runs (again) it listens.
C11_InterruptLeavesNoSocket ==
    /\ (pc = "idle" /\ ret = "interrupted") =>
          /\ server_socket = "None"
          /\ \A c \in ConnIds :
                conn[c].handled = 0 => conn[c].st \notin {"open", "abandoned"}
    /\ LoopRuns => (server_socket = "listening" /\ InClients(LISTENER))

\* The connections other than c that serve has not closed.
Others(c) == {d \in ConnIds \ {c} : conn[d].st \in {"pending", "open"}}

\* C16: at most one connection is being handled at any time.  After every
\* step the only accepted connection that has been read from and is not
\* closed is the one whose handler waits in __recvall_body__; and a step
\* taken while a handler waits there accepts no connection (a queued one
\* stays queued unless the listener is closed), reads from no other
\* connection and sends nothing to one, so the other clients are stalled
\* for as long as the body is withheld.
C16_OneConnectionAtATime ==
    [][ /\ \A c \in ConnIds :
              (conn'[c].st = "open" /\ conn'[c].handled > 0)
                  => (pc' = "recv" /\ cur' = c)
        /\ pc = "recv" =>
              \A d \in Others(cur) :
                  /\ conn'[d].handled = conn[d].handled
                  /\ conn'[d].sent = conn[d].sent
                  /\ conn[d].st = "pending" => conn'[d].st \in {"pending", "reset"}
                  /\ conn[d].st = "open" => conn'[d].st \in {"open", "abandoned"}
                  /\ (pc' = "recv" /\ conn'[d].st = conn[d].st)
                        => Len(conn'[d].inbuf) >= Len(conn[d].inbuf)
      ]_vars

\* C16 witness: the handler of one connection waits for a body its client
\* withholds, while a connection accepted before has its whole request
\* waiting unread.
C16_Witness ==
    /\ pc = "recv"
    /\ conn[cur].st = "open"
    /\ conn[cur].handled = 1
    /\ conn[cur].inbuf = <<>>
    /\ conn[cur].out = <<>>
    /\ Len(body) < cont_length
    /\ \E d \in Others(cur) :
           /\ conn[d].st = "open"
           /\ conn[d].inbuf # <<>>
           /\ conn[d].handled = 0
           /\ conn[d].sent = <<>>

(***************************************************************************)
(* Properties of the test set index, checked under SpecIndex.              *)
(***************************************************************************)
\* C5: set_testset called with lists of different lengths reports an error
\* (it does not return true) and leaves the index and the document array
\* as they were before the call.
C5_MismatchRejected ==
    [][(call'.op = "set_testset" /\ call'.nx # call'.ny) =>
           (ret' # "ok" /\ docs' = docs /\ x_test' = x_test)]_vars

\* C6: in every state each category of the index has path, file and
\* clf_result sequences of one length.
C6_SequencesEqualLength ==
    \A cat \in DOMAIN docs :
        /\ Len(docs[cat].path) = Len(docs[cat].file)
        /\ Len(docs[cat].file) = Len(docs[cat].clf_result)

\* C7: attaching a classifier clears the index, so the results the index
\* holds were all produced by the attached model.
C7_IndexOfAttachedModel ==
    (\E cat \in DOMAIN docs : docs[cat].clf_result # <<>>) => docs_clf = clf

\* C12: serve called with documents and a label list of another length (or
\* none) reports an error and changes nothing of the server's state.
C12_ServeMismatchChangesNothing ==
    [][(call'.op = "serve" /\ call'.nx > 0 /\ call'.nx # call'.ny) =>
           /\ ret' = "error"
           /\ UNCHANGED <<clf, port, server_socket, docs, x_test>>]_vars

\* C19: while serve runs, every result in the index is an index into the
\* category list get_info sends: the attached model's categories followed
\* by "[unknown]".
C19_ResultsIndexCategories ==
    (LoopRuns /\ clf # NoClf) =>
        \A cat \in DOMAIN docs :
            \A k \in 1..Len(docs[cat].clf_result) :
                docs[cat].clf_result[k] \in 0..Len(get_categories(clf))

(***************************************************************************)
(* Properties of the builds, checked under SpecBuild.                      *)
(***************************************************************************)
\* The positions (0-based) of the label cat in ys.
PositionsOf(ys, cat) == {i \in 0..(Len(ys) - 1) : ys[i + 1] = cat}

\* C13: after set_testset(x_test, y_test) with equal lengths has returned,
\* the categories of the index are the distinct labels of y_test, the k-th
\* entry of a category is the k-th document i with that label, named
\* doc_<i> and located :x_test:<i>, and the call returned true iff there
\* is a category.
C13_IndexOfTestset ==
    (call.op = "set_testset" /\ call.nx = call.ny /\ ret \in {"ok", "empty"}) =>
        /\ DOMAIN docs = {call.y[j] : j \in 1..Len(call.y)}
        /\ x_test.set /\ Len(x_test.val) = Len(call.y)
        /\ \A cat \in DOMAIN docs :
              LET I == PositionsOf(call.y, cat)
              IN  /\ Len(docs[cat].file) = Cardinality(I)
                  /\ Len(docs[cat].path) = Cardinality(I)
                  /\ \A k \in 1..Cardinality(I) :
                        \E i \in I :
                            /\ Cardinality({j \in I : j <= i}) = k
                            /\ docs[cat].file[k] = <<"d", "o", "c", "_">> \o IntToStr(i)
                            /\ docs[cat].path[k] =
                                  <<":", "x", "_", "t", "e", "s", "t", ":">> \o IntToStr(i)
        /\ (ret = "ok") <=> (DOMAIN docs # {})

\* C13 witness: set_testset returned true for two documents with the labels
\* B, A.
C13_Witness ==
    /\ call.op = "set_testset"
    /\ call.y = <<<<"B">>, <<"A">>>>
    /\ ret = "ok"
    /\ Len(docs[<<"A">>].path) = 1

\* The locators stored in the index.
StoredPaths ==
    UNION {{docs[cat].path[k] : k \in 1..Len(docs[cat].path)} : cat \in DOMAIN docs}

\* C14: while the array of set_testset is in memory every stored locator
\* :x_test:<i> is one of a document i of the array and get_doc returns that
\* document; once the test set is cleared (clear_testset, set_model, a
\* build from files) get_doc returns the empty text for such a locator.
C14_XTestLocatorsResolve ==
    /\ x_test.set =>
          /\ \A p \in StoredPaths :
                Contains(p, X_TEST) =>
                    \E i \in 0..(Len(x_test.val) - 1) : p = XTestLocator(i)
          /\ \A i \in 0..(Len(x_test.val) - 1) :
                XTestLocator(i) \in StoredPaths =>
                    get_doc_text(XTestLocator(i), x_test) = Ok(DocText(i))
    /\ ~x_test.set =>
          \A i \in 0..MaxDocs : get_doc_text(XTestLocator(i), x_test) = Ok(<<>>)

\* C14 witness: set_testset stored the locator of document 1, and get_doc
\* returns document 1 for it.
C14_Witness ==
    /\ call.op = "set_testset"
    /\ XTestLocator(1) \in StoredPaths
    /\ get_doc_text(XTestLocator(1), x_test) = Ok(DocText(1))

\* The lines of the file a path names, as the build read them.
LinesOf(file_path) == readlines(FileText(Lookup(file_path)), <<>>)

\* C18: after a build from files by file name, the k-th locator of a
\* category is <file path>:line:<k> (k from 0) for the file of the
\* category, there is one per line of the file and one result per line,
\* and get_doc returns line k of the file for it.
C18_LineLocatorsResolve ==
    (call.op = "set_testset_from_files" /\ ret \in {"ok", "empty"}) =>
        \A cat \in DOMAIN docs :
            \A k \in 1..Len(docs[cat].path) :
                LET p == docs[cat].path[k]
                IN  Contains(p, LINE) =>
                        \E test_path \in BuildPaths :
                            LET file_path == test_path \o <<"/">> \o cat
                            IN  /\ p = file_path \o <<":", "l", "i", "n", "e", ":">>
                                           \o IntToStr(k - 1)
                                /\ Len(docs[cat].path) = Len(LinesOf(file_path))
                                /\ Len(docs[cat].clf_result) = Len(LinesOf(file_path))
                                /\ get_doc_text(p, x_test) = Ok(LinesOf(file_path)[k])

\* C18 witness: the build by file name read the two lines of /t/B, and
\* get_doc returns the second line for the second locator.
C18_Witness ==
    /\ call.op = "set_testset_from_files"
    /\ ret = "ok"
    /\ <<"B">> \in DOMAIN docs
    /\ Len(docs[<<"B">>].path) = 2
    /\ Contains(docs[<<"B">>].path[2], LINE)
    /\ get_doc_text(docs[<<"B">>].path[2], x_test) = Ok(<<"q", "q", "N">>)

====
